---- MODULE Spec2Model ----
(***************************************************************************)
(* Model of src/scraper.py: main, init_driver, scrape_search_results and   *)
(* scrape_property_page, run sequentially on one browser session.          *)
(*                                                                         *)
(* The browser collaborator and the site are the environment.  Each call   *)
(* to the collaborator either answers (the answer is chosen when the call  *)
(* is made: which cards a selector finds, whether a ready signal shows up, *)
(* what the payload holds) or raises an unexpected WebDriverException.     *)
(* The number of unexpected exceptions in one run is bounded by MaxFaults. *)
(* TimeoutException and NoSuchElementException are ordinary answers of the *)
(* site and are not counted.                                               *)
(*                                                                         *)
(* Spec is the whole run; in it a record is known by its url alone.        *)
(* MapSpec is lines 88-124 alone: the listing of one payload and the       *)
(* record scrape_property_page compiles from it, field by field.           *)
(***************************************************************************)
EXTENDS Integers, Sequences, FiniteSets, TLC

\* src/scraper.py:16
MAX_PAGES == 3
\* line 116: [:500]
DESC_CAP == 500

\* Bounds of the model.
MaxCards == 2
MaxFaults == 2
SitePages == 2
MaxVaried == 2
MaxOver == 2
MaxItems == 2

VARIABLES
    pc,             \* position in the program
    session,        \* "none": no browser session; "open": webdriver.Chrome returned; "quit": driver.quit() was called
    rendered,       \* the page the session currently shows
    faults,         \* unexpected exceptions raised by collaborators so far
    page,           \* scrape_search_results: page (0 before line 154)
    properties,     \* scrape_search_results: properties
    cards,          \* scrape_search_results: cards
    links,          \* scrape_search_results: links
    i,              \* scrape_search_results: position in the for loop of line 234
    url,            \* scrape_property_page: url
    property_data,  \* scrape_search_results: property_data
    results,        \* main: results
    pending,        \* main: an exception is in flight while the finally clause runs
    outcome,        \* how main ended: "running", "returned", "raised"
    ssrExit,        \* how scrape_search_results ended: "none", "running", "returned", "raised"
    sppState,       \* the current call of scrape_property_page: "idle", "running", "returned", "raised"
    sppSnap,        \* take_screenshot was called during the current call of scrape_property_page
    sppCause,       \* why the current call failed: "none", "no_listing", "exception"
    iters,          \* iterations of the while loop of line 156 begun so far
    invoked,        \* urls scrape_property_page was invoked on in this iteration
    lookedUp,       \* the next-page control was looked up in this iteration
    clicked,        \* the next-page control was invoked in this iteration
    containerSeen,  \* the wait of line 259 found the listings container in this iteration
    stop,           \* why the walk stopped: "none", "no_links", "no_next", "timeout" (the wait of line 259), "nav_failed", "limit", "error"
    aborted,        \* the handler of line 276 was entered
    linksFound,     \* links discovered over all pages
    anyFailure,     \* some call of scrape_property_page returned None
    sppReady,       \* the current call: which ready signal the waits of lines 72-80 saw: "title", "container", "neither"; "none" before the waits and after line 83 has used their outcome
    payloadRead,    \* the current call: lines 83-84 looked for the payload and read what the page has of it
    pageBase,       \* len(properties) when the for loop of this iteration starts
    badPayloads,    \* calls of this iteration whose payload was absent, empty or unparsable
    otherFail,      \* some call of this iteration failed before its payload was read
    nCards,         \* how many cards the links of this iteration were taken from
    listing,        \* scrape_property_page: listing
    record          \* scrape_property_page: the dict of lines 101-124

progVars == <<page, properties, cards, links, i, url, property_data, results, pending>>
envVars == <<session, rendered, faults>>
sppVars == <<sppState, sppSnap, sppCause>>
iterVars == <<iters, invoked, lookedUp, clicked, containerSeen>>
endVars == <<outcome, ssrExit, stop, aborted>>
sumVars == <<linksFound, anyFailure>>
histVars == <<sppReady, payloadRead, pageBase, badPayloads, otherFail, nCards>>
mapVars == <<listing, record>>
vars == <<pc, progVars, envVars, sppVars, iterVars, endVars, sumVars, histVars, mapVars>>

----------------------------------------------------------------------------
(* Values *)

Range(s) == {s[k] : k \in DOMAIN s}

Min(a, b) == IF a < b THEN a ELSE b

\* An href is SEARCH_URL's host followed by "/<section>/<id>".
NoHref == [section |-> "none", id |-> "none"]
Hrefs ==
    { [section |-> "inmueble", id |-> "a"],
      [section |-> "proyecto", id |-> "b"],
      [section |-> "blog", id |-> "c"] }

\* Python values.  A str is the sequence of its characters ("LF" is the line
\* feed), a list is a sequence, a dict is a function on its keys.
EmptyDict == [k \in {} |-> <<>>]
EmptyStr == <<>>
X == <<"x">>
COP == <<"C", "O", "P">>
Ellipsis == <<".", ".", ".">>
Text(n, breaks) == [k \in 1..n |-> IF k \in breaks THEN "LF" ELSE "c"]

\* The leaves of props.pageProps.listing that lines 96-122 read, each by the
\* keys that lead to it, and a key the program does not read.
LeafPaths ==
    { <<"title">>, <<"price", "value">>, <<"price", "currency">>,
      <<"location", "formattedAddress">>, <<"location", "neighborhood", "name">>,
      <<"location", "city", "name">>, <<"propertyType">>, <<"area">>, <<"rooms">>,
      <<"bathrooms">>, <<"parking">>, <<"stratum">>, <<"status">>, <<"description">>,
      <<"features">>, <<"broker", "name">>, <<"broker", "phone">>, <<"images">>,
      <<"virtualTourUrl">>, <<"id">> }
AllPaths == LeafPaths \cup { <<"other">> }

\* The dict that holds the leaves of paths: a sub-object none of whose leaves
\* is held is omitted.  vals gives the description, the features and the images.
RECURSIVE Build(_, _)
Build(paths, vals) ==
    [ k \in { p[1] : p \in paths } |->
        IF <<k>> \in paths
        THEN CASE k = "description" -> vals.description
               [] k = "features" -> vals.features
               [] k = "images" -> vals.images
               [] OTHER -> X
        ELSE Build({ Tail(p) : p \in { q \in paths : q[1] = k } }, vals) ]

\* The sets of at most n paths.
RECURSIVE UpTo(_)
UpTo(n) ==
    IF n = 0 THEN { {} }
    ELSE LET smaller == UpTo(n - 1)
         IN  smaller \cup { S \cup {p} : S \in smaller, p \in AllPaths }

\* Descriptions around the cap, with line feeds at the start, at the cap and
\* past it.
Texts ==
    { Text(n, breaks) : n \in {0, 1} \cup ((DESC_CAP - 1)..(DESC_CAP + MaxOver)),
                        breaks \in { {}, {1}, {DESC_CAP}, {DESC_CAP + 1}, {1, DESC_CAP} } }
FeatureLists == UNION { [1..n -> {X}] : n \in 0..MaxItems }
\* An image with a url, with an empty url, without url.
ImageDicts == { [k \in {"url"} |-> X], [k \in {"url"} |-> EmptyStr], [k \in {"id"} |-> X] }
ImageLists == UNION { [1..n -> ImageDicts] : n \in 0..MaxItems }

\* The listings examined: any leaves omitted or kept, up to MaxVaried of
\* them, and the full listing with every description, features and images.
Listings ==
    { Build(P, [description |-> Text(2, {}), features |-> <<X>>, images |-> <<[k \in {"url"} |-> X]>>]) :
        P \in UpTo(MaxVaried) \cup { AllPaths \ S : S \in UpTo(MaxVaried) } }
    \cup { Build(AllPaths, [description |-> t, features |-> f, images |-> im]) :
             t \in Texts, f \in FeatureLists, im \in ImageLists }

NoListing == EmptyDict
NoRecord == EmptyDict

\* dict.get(k, default)
Get(d, k, default) == IF k \in DOMAIN d THEN d[k] ELSE default

\* s[:n] with one element more.
SliceInclusive(s, n) == SubSeq(s, 1, Min(Len(s), n + 1))

\* s[:n]
Slice(s, n) == SubSeq(s, 1, Min(Len(s), n))

\* s.replace(a, b), a and b single characters
Replace(s, a, b) == [k \in DOMAIN s |-> IF s[k] = a THEN b ELSE s[k]]

\* sep.join(xs)
RECURSIVE Join(_, _)
Join(sep, xs) ==
    IF xs = <<>> THEN EmptyStr
    ELSE IF Len(xs) = 1 THEN xs[1]
    ELSE xs[1] \o sep \o Join(sep, Tail(xs))

\* line 98: [img.get('url', '') for img in listing.get('images', []) if img.get('url')]
RECURSIVE ImageUrls(_)
ImageUrls(imgs) ==
    IF imgs = <<>> THEN <<>>
    ELSE LET u == Get(imgs[1], "url", EmptyStr)
         IN  (IF u # EmptyStr THEN <<u>> ELSE <<>>) \o ImageUrls(Tail(imgs))

\* line 104: the default of currency with the default of the other fields.
CurrencyDefaultEmpty == EmptyStr

\* line 104: 'COP'
CurrencyDefault == COP

\* lines 96-124: the dict scrape_property_page returns for a non-empty listing.
Compile(u, l) ==
    LET location == Get(l, "location", EmptyDict)
        broker == Get(l, "broker", EmptyDict)
        images == ImageUrls(Get(l, "images", <<>>))
    IN  [ url |-> u,
          title |-> Get(l, "title", EmptyStr),
          price |-> Get(Get(l, "price", EmptyDict), "value", EmptyStr),
          currency |-> Get(Get(l, "price", EmptyDict), "currency", CurrencyDefault),
          location |-> Get(location, "formattedAddress", EmptyStr),
          neighborhood |-> Get(Get(location, "neighborhood", EmptyDict), "name", EmptyStr),
          city |-> Get(Get(location, "city", EmptyDict), "name", EmptyStr),
          property_type |-> Get(l, "propertyType", EmptyStr),
          area |-> Get(l, "area", EmptyStr),
          rooms |-> Get(l, "rooms", EmptyStr),
          bathrooms |-> Get(l, "bathrooms", EmptyStr),
          parking |-> Get(l, "parking", EmptyStr),
          stratum |-> Get(l, "stratum", EmptyStr),
          status |-> Get(l, "status", EmptyStr),
          description |-> Replace(Slice(Get(l, "description", EmptyStr), DESC_CAP), "LF", " ") \o Ellipsis,
          features |-> Join(<<",", " ">>, Get(l, "features", <<>>)),
          broker |-> Get(broker, "name", EmptyStr),
          broker_phone |-> Get(broker, "phone", EmptyStr),
          images |-> Join(<<";", " ">>, images),
          virtual_tour |-> Get(l, "virtualTourUrl", EmptyStr),
          property_id |-> Get(l, "id", EmptyStr),
          scraped_at |-> <<"t">> ]

\* line 218: href and ("/inmueble/" in href or "/proyecto/" in href)
Accepted(h) == h # NoHref /\ h.section \in {"inmueble", "proyecto"}

\* A card: whether it holds an <a> element, and that element's href attribute.
Cards ==
    { [anchor |-> FALSE, href |-> NoHref], [anchor |-> TRUE, href |-> NoHref] }
    \cup { [anchor |-> TRUE, href |-> h] : h \in Hrefs }

CardLists == UNION { [1..n -> Cards] : n \in 0..MaxCards }

\* Pages the session can show: nothing yet, results page n, the detail page of
\* a listing (which listing does not matter to the program), another page.
Blank == [kind |-> "blank", n |-> 0]
SearchPage(n) == [kind |-> "search", n |-> n]
DetailPage(h) == [kind |-> "detail", n |-> 0]
OtherPage == [kind |-> "other", n |-> 0]

\* property_data: None, or the dictionary of lines 101-124, of which the
\* walk looks at no field (Compile gives the fields).
None == [url |-> NoHref]
Record(u) == [url |-> u]

\* lines 207-222: the hrefs the cards contribute, in card order.
RECURSIVE CardLinks(_)
CardLinks(cs) ==
    IF cs = <<>> THEN <<>>
    ELSE LET c == cs[1]
             rest == CardLinks(Tail(cs))
         IN  IF c.anchor /\ Accepted(c.href) THEN <<c.href>> \o rest ELSE rest

\* line 225: list(set(links)) keeps one of each url, in an order the hash
\* seed of the process decides.
Orders(S) ==
    { s \in [1..Cardinality(S) -> S] : \A a, b \in DOMAIN s : a # b => s[a] # s[b] }
\* line 225 left out: the list as the cards gave it.
KeepAll(ls) == {ls}

Dedup(ls) == Orders(Range(ls))

\* line 156: while page <= MAX_PAGES
LoopGuard(p) == p <= MAX_PAGES

\* line 242 with the comparison of line 156: the last page would advance too.
WithinLimitInclusive(p) == p <= MAX_PAGES

\* line 242: if page < MAX_PAGES
WithinLimit(p) == p < MAX_PAGES

\* line 264 without the increment: the walk would stay on its page number.
NextPageStuck(p) == p

\* line 264: page += 1
NextPage(p) == p + 1

\* Where invoking a next-page control leads.  On results page n the control
\* leads to results page n + 1.  On any other page an anchor that one of the
\* three locators of lines 247-252 matches is not the results pager: following
\* it leaves the page as it is or shows another page of the site.
ClickTargets(r) ==
    IF r.kind = "search"
    THEN {IF r.n < SitePages THEN SearchPage(r.n + 1) ELSE OtherPage}
    ELSE {r, OtherPage}

\* Whether the rendered page can hold an anchor the locators match: results
\* page n of a site with SitePages pages holds the pager iff it is not the last.
MayHaveNext(r) == IF r.kind = "search" THEN {r.n < SitePages} ELSE BOOLEAN

CanRaise == faults < MaxFaults

----------------------------------------------------------------------------
Init ==
    /\ pc = "init_driver"
    /\ session = "none"
    /\ rendered = Blank
    /\ faults = 0
    /\ page = 0
    /\ properties = <<>>
    /\ cards = <<>>
    /\ links = <<>>
    /\ i = 0
    /\ url = NoHref
    /\ property_data = None
    /\ results = <<>>
    /\ pending = FALSE
    /\ outcome = "running"
    /\ ssrExit = "none"
    /\ sppState = "idle"
    /\ sppSnap = FALSE
    /\ sppCause = "none"
    /\ iters = 0
    /\ invoked = <<>>
    /\ lookedUp = FALSE
    /\ clicked = FALSE
    /\ containerSeen = FALSE
    /\ stop = "none"
    /\ aborted = FALSE
    /\ linksFound = 0
    /\ anyFailure = FALSE
    /\ sppReady = "none"
    /\ payloadRead = FALSE
    /\ pageBase = 0
    /\ badPayloads = 0
    /\ otherFail = FALSE
    /\ nCards = 0
    /\ listing = NoListing
    /\ record = NoRecord

----------------------------------------------------------------------------
(* init_driver and main *)

\* lines 285-286, 28-48: the options, the driver manager and webdriver.Chrome.
\* A failure here leaves no session behind.
InitDriver ==
    /\ pc = "init_driver"
    /\ \/ /\ session' = "open"
          /\ pc' = "init_script"
          /\ UNCHANGED <<faults, outcome>>
       \/ /\ CanRaise
          /\ faults' = faults + 1
          /\ outcome' = "raised"
          /\ pc' = "end"
          /\ UNCHANGED session
    /\ UNCHANGED <<rendered, progVars, sppVars, iterVars, ssrExit, stop, aborted, sumVars>>
    /\ UNCHANGED <<sppReady, payloadRead, pageBase, badPayloads, otherFail, nCards, mapVars>>

\* lines 50-53: driver.execute_script on the new session, then return driver.
\* main has not entered its try block yet (line 288).
InitDriverScript ==
    /\ pc = "init_script"
    /\ \/ /\ pc' = "ssr_get"
          /\ ssrExit' = "running"
          /\ UNCHANGED <<faults, outcome>>
       \/ /\ CanRaise
          /\ faults' = faults + 1
          /\ outcome' = "raised"
          /\ pc' = "end"
          /\ UNCHANGED ssrExit
    /\ UNCHANGED <<session, rendered, progVars, sppVars, iterVars, stop, aborted, sumVars>>
    /\ UNCHANGED <<sppReady, payloadRead, pageBase, badPayloads, otherFail, nCards, mapVars>>

\* lines 290-300: results = scrape_search_results(driver) has returned; write
\* the CSV file when results is not empty.
MainSave ==
    /\ pc = "main_save"
    /\ \/ /\ pc' = "finally"
          /\ UNCHANGED faults
       \/ /\ results # <<>>
          /\ CanRaise
          /\ faults' = faults + 1
          /\ pc' = "main_handler"
    /\ UNCHANGED <<session, rendered, progVars, sppVars, iterVars, endVars, sumVars>>
    /\ UNCHANGED <<sppReady, payloadRead, pageBase, badPayloads, otherFail, nCards, mapVars>>

\* lines 302-304: except Exception: take_screenshot(driver, "main_error")
MainHandler ==
    /\ pc = "main_handler"
    /\ pc' = "finally"
    /\ \/ UNCHANGED <<faults, pending>>
       \/ /\ CanRaise
          /\ faults' = faults + 1
          /\ pending' = TRUE
    /\ UNCHANGED <<session, rendered, page, properties, cards, links, i, url,
                   property_data, results, sppVars, iterVars, endVars, sumVars>>
    /\ UNCHANGED <<sppReady, payloadRead, pageBase, badPayloads, otherFail, nCards, mapVars>>

\* lines 305-307: finally: driver.quit()
Finally ==
    /\ pc = "finally"
    /\ session' = "quit"
    /\ pc' = "end"
    /\ \/ /\ outcome' = IF pending THEN "raised" ELSE "returned"
          /\ UNCHANGED faults
       \/ /\ CanRaise
          /\ faults' = faults + 1
          /\ outcome' = "raised"
    /\ UNCHANGED <<rendered, progVars, sppVars, iterVars, ssrExit, stop, aborted, sumVars>>
    /\ UNCHANGED <<sppReady, payloadRead, pageBase, badPayloads, otherFail, nCards, mapVars>>

----------------------------------------------------------------------------
(* scrape_search_results *)

\* lines 134-136: driver.get(SEARCH_URL).  Not inside any try of the function:
\* an exception goes to main's handler.
SsrGet ==
    /\ pc = "ssr_get"
    /\ \/ /\ rendered' = SearchPage(1)
          /\ pc' = "ssr_initial_shot"
          /\ UNCHANGED <<faults, ssrExit>>
       \/ /\ CanRaise
          /\ faults' = faults + 1
          /\ ssrExit' = "raised"
          /\ pc' = "main_handler"
          /\ UNCHANGED rendered
    /\ UNCHANGED <<session, progVars, sppVars, iterVars, outcome, stop, aborted, sumVars>>
    /\ UNCHANGED <<sppReady, payloadRead, pageBase, badPayloads, otherFail, nCards, mapVars>>

\* lines 138-139: take_screenshot(driver, "initial_page"), outside any try.
SsrInitialShot ==
    /\ pc = "ssr_initial_shot"
    /\ \/ /\ pc' = "ssr_cookies"
          /\ UNCHANGED <<faults, ssrExit>>
       \/ /\ CanRaise
          /\ faults' = faults + 1
          /\ ssrExit' = "raised"
          /\ pc' = "main_handler"
    /\ UNCHANGED <<session, rendered, progVars, sppVars, iterVars, outcome, stop, aborted, sumVars>>
    /\ UNCHANGED <<sppReady, payloadRead, pageBase, badPayloads, otherFail, nCards, mapVars>>

\* lines 141-154: the cookie dialog, whose every failure the bare except of
\* line 150 swallows; then properties = [] and page = 1.
AcceptCookies ==
    /\ pc = "ssr_cookies"
    /\ properties' = <<>>
    /\ page' = 1
    /\ pc' = "loop_test"
    /\ UNCHANGED <<envVars, cards, links, i, url, property_data, results, pending,
                   sppVars, iterVars, endVars, sumVars>>
    /\ UNCHANGED <<sppReady, payloadRead, pageBase, badPayloads, otherFail, nCards, mapVars>>

\* The function is left, by return or by an exception: its locals cards, links,
\* the loop position and property_data are gone, and so is what the model
\* remembers of the last iteration and of the last call of scrape_property_page.
\* page and properties are kept as the values the function ended with.
LeaveFrame ==
    /\ cards' = <<>>
    /\ links' = <<>>
    /\ i' = 0
    /\ property_data' = None
    /\ url' = NoHref
    /\ sppState' = "idle"
    /\ sppSnap' = FALSE
    /\ sppCause' = "none"
    /\ invoked' = <<>>
    /\ lookedUp' = FALSE
    /\ clicked' = FALSE
    /\ containerSeen' = FALSE
    /\ sppReady' = "none"
    /\ payloadRead' = FALSE
    /\ pageBase' = 0
    /\ badPayloads' = 0
    /\ otherFail' = FALSE
    /\ nCards' = 0

\* line 156: while page <= MAX_PAGES.  A new iteration starts with nothing
\* discovered, invoked or looked up yet; links of the iteration before is dead.
LoopTest ==
    /\ pc = "loop_test"
    /\ IF LoopGuard(page)
       THEN /\ pc' = "scroll"
            /\ iters' = Min(iters + 1, MAX_PAGES + 1)
            /\ links' = <<>>
            /\ invoked' = <<>>
            /\ lookedUp' = FALSE
            /\ clicked' = FALSE
            /\ containerSeen' = FALSE
            /\ stop' = "none"
            /\ pageBase' = Len(properties)
            /\ badPayloads' = 0
            /\ otherFail' = FALSE
       ELSE /\ pc' = "ssr_return"
            /\ stop' = "limit"
            /\ UNCHANGED <<links, iterVars, pageBase, badPayloads, otherFail>>
    /\ UNCHANGED <<envVars, page, properties, cards, i, url, property_data, results,
                   pending, sppVars, outcome, ssrExit, aborted, sumVars>>
    /\ UNCHANGED <<sppReady, payloadRead, nCards, mapVars>>

\* lines 157-171: two scrolls, a screenshot, cards = [].
Scroll ==
    /\ pc = "scroll"
    /\ \/ /\ cards' = <<>>
          /\ pc' = "find_testid"
          /\ UNCHANGED faults
       \/ /\ CanRaise
          /\ faults' = faults + 1
          /\ pc' = "page_handler"
          /\ UNCHANGED cards
    /\ UNCHANGED <<session, rendered, page, properties, links, i, url, property_data,
                   results, pending, sppVars, iterVars, endVars, sumVars>>
    /\ UNCHANGED <<sppReady, payloadRead, pageBase, badPayloads, otherFail, nCards, mapVars>>

\* A discovery method without the "if not cards" of the method after it: the
\* next method is queried whatever this one found.
DiscoverAll(next) ==
    \/ \E cs \in CardLists :
          /\ cards' = cs
          /\ pc' = next
          /\ UNCHANGED faults
    \/ /\ CanRaise
       /\ faults' = faults + 1
       /\ pc' = "page_handler"
       /\ UNCHANGED cards

\* One discovery method: find_elements answers with a list of cards (possibly
\* empty; NoSuchElementException leaves cards empty too), or raises.  The
\* methods after it are guarded by "if not cards": with cards found, control
\* passes them by and reaches line 197.
Discover(next) ==
    \/ \E cs \in CardLists :
          /\ cards' = cs
          /\ pc' = IF cs # <<>> THEN "check_cards" ELSE next
          /\ UNCHANGED faults
    \/ /\ CanRaise
       /\ faults' = faults + 1
       /\ pc' = "page_handler"
       /\ UNCHANGED cards

\* lines 173-178: method 1, div[data-testid='m2-card-listings-container']
FindByTestId ==
    /\ pc = "find_testid"
    /\ Discover("find_class")
    /\ UNCHANGED <<session, rendered, page, properties, links, i, url, property_data,
                   results, pending, sppVars, iters, invoked, lookedUp, clicked,
                   containerSeen, endVars, sumVars>>
    /\ UNCHANGED <<sppReady, payloadRead, pageBase, badPayloads, otherFail, nCards, mapVars>>

\* lines 180-186: method 2, div.m2-card-listing, reached only if not cards
FindByClass ==
    /\ pc = "find_class"
    /\ cards = <<>>
    /\ Discover("find_generic")
    /\ UNCHANGED <<session, rendered, page, properties, links, i, url, property_data,
                   results, pending, sppVars, iters, invoked, lookedUp, clicked,
                   containerSeen, endVars, sumVars>>
    /\ UNCHANGED <<sppReady, payloadRead, pageBase, badPayloads, otherFail, nCards, mapVars>>

\* lines 188-194: method 3, div[class*='card'], reached only if not cards
FindGeneric ==
    /\ pc = "find_generic"
    /\ cards = <<>>
    /\ Discover("check_cards")
    /\ UNCHANGED <<session, rendered, page, properties, links, i, url, property_data,
                   results, pending, sppVars, iters, invoked, lookedUp, clicked,
                   containerSeen, endVars, sumVars>>
    /\ UNCHANGED <<sppReady, payloadRead, pageBase, badPayloads, otherFail, nCards, mapVars>>

\* lines 196-204: if not cards: dump the page source, take a screenshot, break.
NoCards ==
    /\ pc = "check_cards"
    /\ cards = <<>>
    /\ stop' = "no_links"
    /\ \/ pc' = "ssr_return" /\ UNCHANGED faults
       \/ /\ CanRaise
          /\ faults' = faults + 1
          /\ pc' = "page_handler"
    /\ UNCHANGED <<session, rendered, progVars, sppVars, iterVars, outcome, ssrExit,
                   aborted, sumVars>>
    /\ UNCHANGED <<sppReady, payloadRead, pageBase, badPayloads, otherFail, nCards, mapVars>>

\* lines 197, 206-226: with cards found, collect the accepted hrefs of the
\* cards (a card whose anchor or href cannot be read is skipped by the handler
\* of line 220), then links = list(set(links)).  cards is not read again before
\* line 170 resets it.
ExtractLinks ==
    /\ pc = "check_cards"
    /\ cards # <<>>
    /\ links' \in Dedup(CardLinks(cards))
    /\ linksFound' = linksFound + Len(links')
    /\ nCards' = Len(cards)
    /\ cards' = <<>>
    /\ pc' = "check_links"
    /\ UNCHANGED <<envVars, page, properties, i, url, property_data, results,
                   pending, sppVars, iters, invoked, lookedUp, clicked, containerSeen,
                   endVars, anyFailure>>
    /\ UNCHANGED <<sppReady, payloadRead, pageBase, badPayloads, otherFail, mapVars>>

\* lines 228-234: if not links: screenshot, break; otherwise start the for loop.
CheckLinks ==
    /\ pc = "check_links"
    /\ nCards' = 0
    /\ IF links = <<>>
       THEN /\ stop' = "no_links"
            /\ \/ pc' = "ssr_return" /\ UNCHANGED faults
               \/ /\ CanRaise
                  /\ faults' = faults + 1
                  /\ pc' = "page_handler"
            /\ UNCHANGED i
       ELSE /\ i' = 1
            /\ pc' = "for_links"
            /\ UNCHANGED <<faults, stop>>
    /\ UNCHANGED <<session, rendered, page, properties, cards, links, url, property_data,
                   results, pending, sppVars, iterVars, outcome, ssrExit, aborted, sumVars>>
    /\ UNCHANGED <<sppReady, payloadRead, pageBase, badPayloads, otherFail, mapVars>>

\* lines 234-236: the next url of links, and the call of scrape_property_page;
\* after the last url, go on to line 241.
ForLinks ==
    /\ pc = "for_links"
    /\ IF i <= Len(links)
       THEN /\ url' = links[i]
            /\ invoked' = Append(invoked, links[i])
            /\ sppState' = "running"
            /\ sppSnap' = FALSE
            /\ sppCause' = "none"
            /\ sppReady' = "none"
            /\ payloadRead' = FALSE
            /\ pc' = "spp_get"
       ELSE /\ pc' = "check_limit"
            /\ UNCHANGED <<url, invoked, sppVars, sppReady, payloadRead>>
    /\ UNCHANGED <<envVars, page, properties, cards, links, i, property_data, results,
                   pending, iters, lookedUp, clicked, containerSeen,
                   endVars, sumVars>>
    /\ UNCHANGED <<pageBase, badPayloads, otherFail, nCards, mapVars>>

\* lines 236-239: scrape_property_page has returned (its parameter url is
\* gone): append a record, skip None.
AppendRecord ==
    /\ pc = "spp_returned"
    /\ properties' = IF property_data # None
                     THEN Append(properties, property_data) ELSE properties
    /\ anyFailure' = (anyFailure \/ property_data = None)
    /\ i' = i + 1
    /\ sppState' = "idle"
    /\ sppSnap' = FALSE
    /\ sppCause' = "none"
    /\ sppReady' = "none"
    /\ payloadRead' = FALSE
    /\ url' = NoHref
    /\ pc' = "for_links"
    /\ UNCHANGED <<envVars, page, cards, links, property_data, results, pending,
                   iterVars, endVars, linksFound>>
    /\ UNCHANGED <<pageBase, badPayloads, otherFail, nCards, mapVars>>

\* lines 241-242, 273-274: if page < MAX_PAGES ... else: break
CheckLimit ==
    /\ pc = "check_limit"
    /\ IF WithinLimit(page)
       THEN pc' = "find_next" /\ UNCHANGED stop
       ELSE pc' = "ssr_return" /\ stop' = "limit"
    /\ pageBase' = 0
    /\ badPayloads' = 0
    /\ otherFail' = FALSE
    /\ UNCHANGED <<envVars, progVars, sppVars, iterVars, outcome, ssrExit, aborted, sumVars>>
    /\ UNCHANGED <<sppReady, payloadRead, nCards, mapVars>>

\* lines 244-254: the three locators, tried in order on the page the session
\* shows; a locator that raises falls through to the next, and the exception
\* of the third goes to the handler of line 269.
FindNext ==
    /\ pc = "find_next"
    /\ lookedUp' = TRUE
    /\ \/ /\ \E has \in MayHaveNext(rendered) :
                IF has
                THEN pc' = "click_next" /\ UNCHANGED stop
                ELSE pc' = "next_handler" /\ stop' = "no_next"
          /\ UNCHANGED faults
       \/ /\ CanRaise
          /\ faults' = faults + 1
          /\ stop' = "nav_failed"
          /\ pc' = "next_handler"
    /\ UNCHANGED <<session, rendered, progVars, sppVars, iters, invoked,
                   clicked, containerSeen, outcome, ssrExit, aborted, sumVars>>
    /\ UNCHANGED <<sppReady, payloadRead, pageBase, badPayloads, otherFail, nCards, mapVars>>

\* lines 255-256: scrollIntoView and click through execute_script.
ClickNext ==
    /\ pc = "click_next"
    /\ \/ /\ clicked' = TRUE
          /\ rendered' \in ClickTargets(rendered)
          /\ pc' = "wait_listings"
          /\ UNCHANGED <<faults, stop>>
       \/ /\ CanRaise
          /\ faults' = faults + 1
          /\ stop' = "nav_failed"
          /\ pc' = "next_handler"
          /\ UNCHANGED <<clicked, rendered>>
    /\ UNCHANGED <<session, progVars, sppVars, iters, invoked, lookedUp,
                   containerSeen, outcome, ssrExit, aborted, sumVars>>
    /\ UNCHANGED <<sppReady, payloadRead, pageBase, badPayloads, otherFail, nCards, mapVars>>

\* lines 258-263: wait up to 15 s for a listings container to be present.
WaitListings ==
    /\ pc = "wait_listings"
    /\ \/ /\ containerSeen' = TRUE
          /\ pc' = "inc_page"
          /\ UNCHANGED <<faults, stop>>
       \/ /\ stop' = "timeout"
          /\ pc' = "next_handler"
          /\ UNCHANGED <<faults, containerSeen>>
       \/ /\ CanRaise
          /\ faults' = faults + 1
          /\ stop' = "nav_failed"
          /\ pc' = "next_handler"
          /\ UNCHANGED containerSeen
    /\ UNCHANGED <<session, rendered, progVars, sppVars, iters, invoked,
                   lookedUp, clicked, outcome, ssrExit, aborted, sumVars>>
    /\ UNCHANGED <<sppReady, payloadRead, pageBase, badPayloads, otherFail, nCards, mapVars>>

\* lines 264-265: page += 1, then a screenshot whose failure goes to the
\* handler of line 269 with page already incremented.
IncPage ==
    /\ pc = "inc_page"
    /\ page' = NextPage(page)
    /\ \/ /\ pc' = "loop_test"
          /\ UNCHANGED <<faults, stop>>
       \/ /\ CanRaise
          /\ faults' = faults + 1
          /\ stop' = "nav_failed"
          /\ pc' = "next_handler"
    /\ UNCHANGED <<session, rendered, properties, cards, links, i, url, property_data,
                   results, pending, sppVars, iterVars, outcome, ssrExit, aborted, sumVars>>
    /\ UNCHANGED <<sppReady, payloadRead, pageBase, badPayloads, otherFail, nCards, mapVars>>

\* lines 269-272: except Exception: take_screenshot(driver, "next_page_error"),
\* break.  The handler is inside the try of line 157.
NextHandler ==
    /\ pc = "next_handler"
    /\ \/ pc' = "ssr_return" /\ UNCHANGED faults
       \/ /\ CanRaise
          /\ faults' = faults + 1
          /\ pc' = "page_handler"
    /\ UNCHANGED <<session, rendered, progVars, sppVars, iterVars, endVars, sumVars>>
    /\ UNCHANGED <<sppReady, payloadRead, pageBase, badPayloads, otherFail, nCards, mapVars>>

\* lines 276-279: except Exception: take_screenshot(driver, f"page_{page}_error"),
\* break.  An exception of this screenshot leaves the function.
PageHandler ==
    /\ pc = "page_handler"
    /\ aborted' = TRUE
    /\ stop' = IF stop = "none" THEN "error" ELSE stop
    /\ \/ /\ pc' = "ssr_return"
          /\ sppReady' = "none"
          /\ payloadRead' = FALSE
          /\ pageBase' = 0
          /\ badPayloads' = 0
          /\ otherFail' = FALSE
          /\ UNCHANGED <<faults, ssrExit, cards, links, i, property_data, url, sppVars,
                         invoked, lookedUp, clicked, containerSeen, nCards>>
       \/ /\ CanRaise
          /\ faults' = faults + 1
          /\ ssrExit' = "raised"
          /\ pc' = "main_handler"
          /\ LeaveFrame
    /\ UNCHANGED <<session, rendered, page, properties, results, pending, iters,
                   outcome, sumVars>>
    /\ UNCHANGED mapVars

\* lines 281, 290: return properties; results = scrape_search_results(driver)
SsrReturn ==
    /\ pc = "ssr_return"
    /\ results' = properties
    /\ ssrExit' = "returned"
    /\ pc' = "main_save"
    /\ LeaveFrame
    /\ UNCHANGED <<envVars, page, properties, pending, iters, outcome, stop,
                   aborted, sumVars>>
    /\ UNCHANGED mapVars

----------------------------------------------------------------------------
(* scrape_property_page *)

\* lines 67-68: driver.get(url), before the try of line 70: an exception
\* leaves the function and reaches the handler of line 276.
SppGet ==
    /\ pc = "spp_get"
    /\ \/ /\ rendered' = DetailPage(url)
          /\ pc' = "spp_wait"
          /\ UNCHANGED <<faults, sppState, otherFail>>
       \/ /\ CanRaise
          /\ faults' = faults + 1
          /\ sppState' = "raised"
          /\ otherFail' = TRUE
          /\ pc' = "page_handler"
          /\ UNCHANGED rendered
    /\ UNCHANGED <<session, progVars, sppSnap, sppCause, iterVars, endVars, sumVars>>
    /\ UNCHANGED <<sppReady, payloadRead, pageBase, badPayloads, nCards, mapVars>>

\* lines 71-80: wait for the title; on TimeoutException wait for the detail
\* container; a second TimeoutException, or any other exception, goes to the
\* handler of line 126.
SppWait ==
    /\ pc = "spp_wait"
    /\ \/ \E ready \in {"title", "container", "neither"} :
             /\ sppReady' = ready
             /\ IF ready = "neither"
                THEN pc' = "spp_handler" /\ sppCause' = "exception" /\ otherFail' = TRUE
                ELSE pc' = "spp_payload" /\ UNCHANGED <<sppCause, otherFail>>
             /\ UNCHANGED faults
       \/ /\ CanRaise
          /\ faults' = faults + 1
          /\ sppCause' = "exception"
          /\ otherFail' = TRUE
          /\ pc' = "spp_handler"
          /\ UNCHANGED sppReady
    /\ UNCHANGED <<session, rendered, progVars, sppState, sppSnap, iterVars, endVars, sumVars>>
    /\ UNCHANGED <<payloadRead, pageBase, badPayloads, nCards, mapVars>>

\* lines 82-90: find the script node, parse its text, read props.pageProps.listing.
\* The node may be absent or its text no JSON (exceptions, handled at line 126);
\* the listing may be absent or empty.
SppPayload ==
    /\ pc = "spp_payload"
    /\ \/ \E payload \in {"listing", "no_listing", "absent", "malformed"} :
             /\ CASE payload = "listing" -> pc' = "spp_record" /\ UNCHANGED sppCause
                  [] payload = "no_listing" -> pc' = "spp_no_listing" /\ UNCHANGED sppCause
                  [] OTHER -> pc' = "spp_handler" /\ sppCause' = "exception"
             /\ payloadRead' = TRUE
             /\ sppReady' = "none"
             /\ badPayloads' = IF payload = "listing" THEN badPayloads ELSE badPayloads + 1
             /\ UNCHANGED <<faults, otherFail>>
       \/ /\ CanRaise
          /\ faults' = faults + 1
          /\ sppCause' = "exception"
          /\ otherFail' = TRUE
          /\ pc' = "spp_handler"
          /\ sppReady' = "none"
          /\ UNCHANGED <<payloadRead, badPayloads>>
    /\ UNCHANGED <<session, rendered, progVars, sppState, sppSnap, iterVars, endVars, sumVars>>
    /\ UNCHANGED <<pageBase, nCards, mapVars>>

\* lines 90-93: no listing: take_screenshot(driver, "no_listing_data"), return
\* None.  The screenshot is inside the try: its exception is handled at line 126.
SppNoListing ==
    /\ pc = "spp_no_listing"
    /\ sppSnap' = TRUE
    /\ \/ /\ property_data' = None
          /\ sppState' = "returned"
          /\ sppCause' = "no_listing"
          /\ pc' = "spp_returned"
          /\ UNCHANGED faults
       \/ /\ CanRaise
          /\ faults' = faults + 1
          /\ sppCause' = "exception"
          /\ pc' = "spp_handler"
          /\ UNCHANGED <<property_data, sppState>>
    /\ UNCHANGED <<session, rendered, page, properties, cards, links, i, url, results,
                   pending, iterVars, endVars, sumVars>>
    /\ UNCHANGED <<sppReady, payloadRead, pageBase, badPayloads, otherFail, nCards, mapVars>>

\* lines 95-124: build and return the record.
SppRecord ==
    /\ pc = "spp_record"
    /\ property_data' = Record(url)
    /\ sppState' = "returned"
    /\ pc' = "spp_returned"
    /\ UNCHANGED <<envVars, page, properties, cards, links, i, url, results, pending,
                   sppSnap, sppCause, iterVars, endVars, sumVars>>
    /\ UNCHANGED <<sppReady, payloadRead, pageBase, badPayloads, otherFail, nCards, mapVars>>

\* lines 126-129: except Exception: take_screenshot(driver, "property_error"),
\* return None.  An exception of this screenshot leaves the function.
SppHandler ==
    /\ pc = "spp_handler"
    /\ sppSnap' = TRUE
    /\ \/ /\ property_data' = None
          /\ sppState' = "returned"
          /\ pc' = "spp_returned"
          /\ UNCHANGED faults
       \/ /\ CanRaise
          /\ faults' = faults + 1
          /\ sppState' = "raised"
          /\ pc' = "page_handler"
          /\ UNCHANGED property_data
    /\ UNCHANGED <<session, rendered, page, properties, cards, links, i, url, results,
                   pending, sppCause, iterVars, endVars, sumVars>>
    /\ UNCHANGED <<sppReady, payloadRead, pageBase, badPayloads, otherFail, nCards, mapVars>>

\* line 88 onwards, on its own: the listing a page's payload holds, and what
\* lines 90-124 make of it.  The state is that of the first call of
\* scrape_property_page on the first page once line 88 has run.
MapInit ==
    /\ pc = "map_listing"
    /\ listing \in Listings
    /\ record = NoRecord
    /\ url \in { h \in Hrefs : Accepted(h) }
    /\ links = <<url>>
    /\ invoked = <<url>>
    /\ i = 1
    /\ session = "open"
    /\ rendered = DetailPage(url)
    /\ faults = 0
    /\ page = 1
    /\ properties = <<>>
    /\ cards = <<>>
    /\ property_data = None
    /\ results = <<>>
    /\ pending = FALSE
    /\ outcome = "running"
    /\ ssrExit = "running"
    /\ sppState = "running"
    /\ sppSnap = FALSE
    /\ sppCause = "none"
    /\ iters = 1
    /\ lookedUp = FALSE
    /\ clicked = FALSE
    /\ containerSeen = FALSE
    /\ stop = "none"
    /\ aborted = FALSE
    /\ linksFound = 1
    /\ anyFailure = FALSE
    /\ sppReady = "none"
    /\ payloadRead = TRUE
    /\ pageBase = 0
    /\ badPayloads = 0
    /\ otherFail = FALSE
    /\ nCards = 0

\* lines 90-93: if not listing: screenshot, return None
CheckListing ==
    /\ pc = "map_listing"
    /\ IF DOMAIN listing = {}
       THEN /\ sppSnap' = TRUE
            /\ sppCause' = "no_listing"
            /\ sppState' = "returned"
            /\ pc' = "map_none"
       ELSE /\ pc' = "map_compile"
            /\ UNCHANGED sppVars
    /\ UNCHANGED <<progVars, envVars, iterVars, endVars, sumVars, histVars, mapVars>>

\* lines 95-124: return the dict
CompileRecord ==
    /\ pc = "map_compile"
    /\ record' = Compile(url, listing)
    /\ sppState' = "returned"
    /\ pc' = "map_record"
    /\ UNCHANGED <<progVars, envVars, sppSnap, sppCause, iterVars, endVars, sumVars,
                   histVars, listing>>

----------------------------------------------------------------------------
Next ==
    \/ InitDriver \/ InitDriverScript
    \/ SsrGet \/ SsrInitialShot \/ AcceptCookies \/ LoopTest \/ Scroll
    \/ FindByTestId \/ FindByClass \/ FindGeneric \/ NoCards
    \/ ExtractLinks \/ CheckLinks \/ ForLinks
    \/ SppGet \/ SppWait \/ SppPayload \/ SppNoListing \/ SppRecord \/ SppHandler
    \/ AppendRecord \/ CheckLimit \/ FindNext \/ ClickNext \/ WaitListings
    \/ IncPage \/ NextHandler \/ PageHandler \/ SsrReturn
    \/ MainSave \/ MainHandler \/ Finally

Spec == Init /\ [][Next]_vars

\* The program is one thread that runs until main ends: a step that can be
\* taken is taken.
FairSpec == Spec /\ WF_vars(Next)

\* The specification of lines 88-124 alone.
MapNext == CheckListing \/ CompileRecord

MapSpec == MapInit /\ [][MapNext]_vars

----------------------------------------------------------------------------
(* Properties *)

Count(u, s) == Cardinality({k \in DOMAIN s : s[k] = u})

\* C1: when the walk leaves a page whose link set was discovered, every url
\* of the link set has been handed to scrape_property_page exactly once,
\* whatever happened to the urls before it.
C1_EveryLinkInvokedOnce ==
    pc = "ssr_return" => \A k \in DOMAIN links : Count(links[k], invoked) = 1

\* C2: a call of scrape_property_page never ends by an exception, and a call
\* in which an exception occurred returns None after asking for a snapshot.
C2_NeverPropagates ==
    /\ sppState # "raised"
    /\ (pc = "spp_returned" /\ sppCause = "exception") => (sppSnap /\ property_data = None)

\* C3: a run on a site of SitePages <= MAX_PAGES result pages in which no
\* collaborator raised, no discovery came back empty, no extraction failed and
\* no wait timed out has gone through SitePages iterations and returns as many
\* records as links were discovered.
C3_ScenarioA ==
    ( /\ pc = "end"
      /\ outcome = "returned"
      /\ SitePages <= MAX_PAGES
      /\ faults = 0
      /\ ~anyFailure
      /\ stop \in {"no_next", "limit"} )
    => (iters = SitePages /\ Len(results) = linksFound)

\* C4: no two records of the accumulated result have the same url.
C4_NoDuplicateUrls ==
    \A a, b \in DOMAIN properties : a # b => properties[a].url # properties[b].url

\* C5: a run that created a browser session has called driver.quit() by the
\* time it ends.
C5_SessionReleased ==
    (pc = "end" /\ session # "none") => session = "quit"

\* C6: when the page-level handler of line 276 was entered, main receives
\* every record that was extracted before: none is lost.
C6_RecordsSurviveAbort ==
    (pc = "end" /\ aborted) => results = properties

\* C7: a run that created a browser session ends without an exception leaving
\* main, and with the records that were extracted.
C7_MainNeverRaises ==
    (pc = "end" /\ session # "none") => (outcome = "returned" /\ results = properties)

\* C8: once assigned, page stays within 1..MAX_PAGES; it starts at 1 and
\* afterwards changes only by +1, and only in an iteration in which the
\* next-page control was invoked and the listings container then detected.
C8_PageWithinLimit ==
    /\ [](page = 0 \/ (1 <= page /\ page <= MAX_PAGES))
    /\ [][page' # page =>
            \/ (pc = "ssr_cookies" /\ page = 0 /\ page' = 1)
            \/ (page' = page + 1 /\ clicked /\ containerSeen)]_vars

C8_LastPageReached ==
    pc = "loop_test" /\ page = MAX_PAGES /\ clicked /\ containerSeen

C10_ZeroLinksDone ==
    /\ stop = "no_links" =>
          (invoked = <<>> /\ ~lookedUp /\ ~clicked /\ page = iters)
    /\ (pc = "end" /\ stop = "no_links") => results = properties

\* C11: when no locator finds a next-page control, or the control was invoked
\* and the listings container did not appear in time, page is not incremented
\* and the walk returns, without raising, every record extracted so far.
C11_FailedAdvanceKeepsRecords ==
    /\ stop \in {"no_next", "timeout"} => page = iters
    /\ (pc = "end" /\ stop \in {"no_next", "timeout"}) =>
          (ssrExit = "returned" /\ results = properties)


\* C12: when the n links of a page have all been dealt with, k of them having
\* a payload that is absent, empty or unparsable and no link failing for
\* another reason, exactly n - k records were appended for the page; a call
\* that read such a payload took a debug snapshot and returned no record.
C12_PayloadFailuresSkipped ==
    /\ ((pc = "check_limit" \/ (pc = "page_handler" /\ sppState = "raised")) /\ ~otherFail) =>
          Len(properties) = pageBase + Len(links) - badPayloads
    /\ (pc = "spp_returned" /\ payloadRead /\ sppCause # "none") =>
          (sppSnap /\ property_data = None)


\* C13: links never holds a url twice, every url in it contains "/inmueble/"
\* or "/proyecto/", and the urls taken from a page's cards are exactly the
\* hrefs of this kind that the cards' anchors carry: a card without anchor,
\* without href or with another href contributes nothing.
C13_LinksUniqueAndAccepted ==
    /\ [](\A a, b \in DOMAIN links : a # b => links[a] # links[b])
    /\ [](\A k \in DOMAIN links : links[k].section \in {"inmueble", "proyecto"})
    /\ [][(pc = "check_cards" /\ cards # <<>>) =>
            Range(links') =
              { cards[k].href : k \in { j \in DOMAIN cards :
                    cards[j].anchor /\ cards[j].href.section \in {"inmueble", "proyecto"} } }]_vars

\* Two cards were found and one url is handed to the extraction loop.
C13_CardDropped == pc = "check_links" /\ nCards = 2 /\ Len(links) = 1


\* C14: the discovery methods are queried in the order data-testid, class
\* token, generic card pattern; a method is queried only while every method
\* before it returned no card; once a method returns cards no further method
\* is queried and the links are taken from those cards, also when none of
\* them holds an accepted link (the walk then stops without another query).
C14_FirstNonEmptyStrategy ==
    /\ [](pc \in {"find_class", "find_generic"} => cards = <<>>)
    /\ [][/\ (pc' = "find_testid") => (pc = "scroll")
          /\ (pc' = "find_class") => (pc = "find_testid")
          /\ (pc' = "find_generic") => (pc = "find_class")]_vars
    /\ [][(pc \in {"find_testid", "find_class", "find_generic"} /\ cards' # <<>>) =>
            (pc' = "check_cards")]_vars
    /\ [][(pc = "check_cards" /\ cards # <<>>) =>
            (pc' = "check_links" /\ Range(links') \subseteq {cards[k].href : k \in DOMAIN cards})]_vars
    /\ [][(pc = "check_links" /\ links = <<>>) =>
            (pc' \in {"ssr_return", "page_handler"})]_vars

\* A method returned cards, none of which holds an accepted link.
C14_CardsWithoutLinks == pc = "check_links" /\ nCards > 0 /\ links = <<>>


\* The 22 keys of the record, and for the 20 of them that come from the
\* payload the place in the listing each is read from.
RecordKeys ==
    { "url", "title", "price", "currency", "location", "neighborhood", "city",
      "property_type", "area", "rooms", "bathrooms", "parking", "stratum", "status",
      "description", "features", "broker", "broker_phone", "images", "virtual_tour",
      "property_id", "scraped_at" }
FieldPath ==
    [ title |-> <<"title">>, price |-> <<"price", "value">>,
      currency |-> <<"price", "currency">>,
      location |-> <<"location", "formattedAddress">>,
      neighborhood |-> <<"location", "neighborhood", "name">>,
      city |-> <<"location", "city", "name">>, property_type |-> <<"propertyType">>,
      area |-> <<"area">>, rooms |-> <<"rooms">>, bathrooms |-> <<"bathrooms">>,
      parking |-> <<"parking">>, stratum |-> <<"stratum">>, status |-> <<"status">>,
      description |-> <<"description">>, features |-> <<"features">>,
      broker |-> <<"broker", "name">>, broker_phone |-> <<"broker", "phone">>,
      images |-> <<"images">>, virtual_tour |-> <<"virtualTourUrl">>,
      property_id |-> <<"id">> ]
RECURSIVE Has(_, _)
Has(d, path) ==
    /\ path[1] \in DOMAIN d
    /\ Len(path) = 1 \/ Has(d[path[1]], Tail(path))

\* C15 as stated: a non-empty listing gives a record, never a failure; the
\* record has the 22 keys, and a field omitted from the listing holds the
\* empty string, 'COP' for currency, the empty joined list for features and images.
C15_OmittedFieldsEmpty ==
    /\ pc = "map_none" => DOMAIN listing = {}
    /\ pc = "map_record" =>
          /\ DOMAIN record = RecordKeys
          /\ \A key \in DOMAIN FieldPath :
                ~Has(listing, FieldPath[key]) =>
                    record[key] = IF key = "currency" THEN <<"C", "O", "P">> ELSE <<>>

\* C15 amended: as above, but an omitted description holds "...".
C15_OmittedFieldsDefault ==
    /\ pc = "map_none" => DOMAIN listing = {}
    /\ pc = "map_record" =>
          /\ DOMAIN record = RecordKeys
          /\ \A key \in DOMAIN FieldPath :
                ~Has(listing, FieldPath[key]) =>
                    record[key] = CASE key = "currency" -> <<"C", "O", "P">>
                                    [] key = "description" -> <<".", ".", ".">>
                                    [] OTHER -> <<>>

\* A record was made of a listing that holds none of the fields read.
C15_EveryFieldOmitted == pc = "map_record" /\ DOMAIN listing = {"other"}


C17_LookupsOnSearchPage ==
    pc \in {"find_testid", "find_class", "find_generic", "find_next"} =>
        rendered = SearchPage(page)


\* The elements of ls in the order of their first occurrence.
RECURSIVE FirstSeen(_)
FirstSeen(ls) ==
    IF ls = <<>> THEN <<>>
    ELSE LET front == FirstSeen(SubSeq(ls, 1, Len(ls) - 1))
             last == ls[Len(ls)]
         IN  IF last \in Range(front) THEN front ELSE Append(front, last)

\* C18: within a page the urls are handed to the extraction loop in the order
\* in which the cards first gave them, scrape_property_page is invoked in
\* that order, and the records of the page are appended in that order.
C18_DiscoveryOrder ==
    /\ [][(pc = "check_cards" /\ cards # <<>>) => links' = FirstSeen(CardLinks(cards))]_vars
    /\ [](invoked = SubSeq(links, 1, Len(invoked)))
    /\ [][properties' # properties => properties' = Append(properties, Record(links[i]))]_vars


\* C19: in scrape_property_page, once the title or else the detail container
\* became visible the payload is looked up next; when neither became visible
\* the payload is never read and the call ends by returning None, a debug
\* snapshot taken.
C19_ReadySignals ==
    /\ sppReady \in {"title", "container"} => pc = "spp_payload"
    /\ sppReady = "neither" =>
          /\ ~payloadRead
          /\ sppState # "raised"
          /\ pc = "spp_returned" => (property_data = None /\ sppSnap)

====
